---- MODULE Spec2Model ----
\* Monte Carlo Tree Search controller of P2/src/mcts_modified.py (think and
\* the functions it calls), run against a family of small two-player games.
EXTENDS Integers, Sequences, FiniteSets, TLC

VARIABLES board, current_state, num_nodes, bot_identity, tree, pc, iter,
          node, state, leaf_node, expand_node, n, w, best_action, probe

vars == <<board, current_state, num_nodes, bot_identity, tree, pc, iter,
          node, state, leaf_node, expand_node, n, w, best_action, probe>>

\* ---------------------------------------------------------------- bounds
\* Largest iteration budget (value of the global num_nodes) explored.
MaxBudget == 12
\* Largest number of counters left in the position think is called on.
MaxRem == 6
\* Largest number of counters left in the position testaction is called on
\* by itself: enough for a playout to outlast the depth cap.
MaxProbeRem == 23

\* ------------------------------------------------------- program constants
explore_faction == 2
\* Python's None (best_action before any child qualifies); actions are >= 1.
None == 0
\* float("inf"): above every finite ucb value in units of 1/10000000.
Inf == 1000000000
\* depth > 19 stops testaction.
DepthCap == 19

\* ------------------------------------------------------------ game engine
\* The Board collaborator (p2_t3.Board) behind the contract of the five
\* calls the search makes. The family of engines: a countdown game. A
\* state is the number of counters left and the player to move; a move
\* takes one or two counters; the game ends when none is left (rem = 0,
\* "exact") or when the mover took more than was left (rem = -1, "over").
\* The engine decides what each ending is worth to the player who made the
\* last move, and the order in which it lists the legal actions.
Results == {"win", "loss", "draw"}

Boards == [order : {<<1, 2>>, <<2, 1>>}, exact : Results, over : Results]

States == [rem : (-1)..MaxRem, turn : 1..2]

is_ended(b, s) == s.rem <= 0

legal_actions(b, s) == IF is_ended(b, s) THEN <<>> ELSE b.order

next_state(b, s, a) ==
    [rem |-> IF s.rem - a < 0 THEN -1 ELSE s.rem - a, turn |-> 3 - s.turn]

current_player(b, s) == s.turn

Score(r) == IF r = "win" THEN 1 ELSE IF r = "loss" THEN -1 ELSE 0

Flip(r) == IF r = "win" THEN "loss" ELSE IF r = "loss" THEN "win" ELSE "draw"

\* What points_values returns on a state that is not ended (None).
NoPoints == <<>>

\* The points of players 1 and 2 on an ended state.
points_values(b, s) ==
    IF ~is_ended(b, s) THEN NoPoints
    ELSE LET r == IF s.rem = 0 THEN b.exact ELSE b.over
             mover == 3 - s.turn
         IN  [p \in 1..2 |-> IF p = mover THEN Score(r) ELSE Score(Flip(r))]

\* ------------------------------------------------------------- tree nodes
\* A node is named by the sequence of actions leading to it from the root;
\* the root is <<>>. parent and parent_action are read off the name.
Root == <<>>

NoNode == <<0>>

Parent(nd) == SubSeq(nd, 1, Len(nd) - 1)

ParentAction(nd) == nd[Len(nd)]

\* child_nodes is a dict: its keys in insertion order; the child stored
\* under key a of node nd is the node nd \o <<a>>.
MCTSNode(action_list) ==
    [visits |-> 0, wins |-> 0, untried_actions |-> action_list,
     child_nodes |-> <<>>]

Child(nd, a) == nd \o <<a>>

Range(s) == {s[i] : i \in 1..Len(s)}

\* ------------------------------------------------------------------- ucb
\* sqrt(log(P) / k), in units of 1/10000000 and rounded to the nearest
\* unit, at row P (the visits of the parent, 1..16) and column k (the
\* visits of the node, 1..P). log(0) raises an error: there is no row 0.
SqrtLogOver ==
    <<
      <<0>>,
      <<8325546, 5887050>>,
      <<10481471, 7411519, 6051480>>,
      <<11774100, 8325546, 6797780, 5887050>>,
      <<12686362, 8970613, 7324475, 6343181, 5673514>>,
      <<13385662, 9465092, 7728216, 6692831, 5986250, 5464674>>,
      <<13949588, 9863849, 8053799, 6974794, 6238446, 5694896, 5272449>>,
      <<14420269, 10196670, 8325546, 7210134, 6448940, 5887050, 5450349, 5098335>>,
      <<14823038, 10481471, 8558085, 7411519, 6629064, 6051480, 5602582, 5240735, 4941013>>,
      <<15174271, 10729830, 8760870, 7587136, 6786140, 6194870, 5735335, 5364915, 5058090, 4798526>>,
      <<15485139, 10949647, 8940349, 7742569, 6925165, 6321781, 5852832, 5474823, 5161713, 4896831, 4668945>>,
      <<15763587, 11146539, 9101111, 7881793, 7049690, 6435457, 5958076, 5573270, 5254529, 4984884, 4752900, 4550556>>,
      <<16015459, 11324640, 9246530, 8007730, 7162331, 6538284, 6053275, 5662320, 5338486, 5064533, 4828843, 4623265, 4441889>>,
      <<16245176, 11487074, 9379157, 8122588, 7265063, 6632065, 6140099, 5743537, 5415059, 5137176, 4898105, 4689578, 4505601, 4341706>>,
      <<16456154, 11636258, 9500965, 8228077, 7359416, 6718197, 6219842, 5818129, 5485385, 5203893, 4961717, 4750483, 4564116, 4398092, 4248961>>,
      <<16651092, 11774100, 9613513, 8325546, 7446595, 6797780, 6293521, 5887050, 5550364, 5265538, 5020493, 4806756, 4618182, 4450192, 4299294, 4162773>>
    >>

\* Mutant: the value of a node without visits is inverted for the
\* opponent like every other value.
ucb_invertsInf(t, nd, is_opponent) ==
    LET ucb_value ==
            IF t[nd].visits = 0 THEN Inf
            ELSE (t[nd].wins * 10000000) \div t[nd].visits
                     + explore_faction
                         * SqrtLogOver[t[Parent(nd)].visits][t[nd].visits]
    IN  IF is_opponent THEN 10000000 - ucb_value ELSE ucb_value

\* The ucb value of node nd, in units of 1/10000000.
ucb(t, nd, is_opponent) ==
    IF t[nd].visits = 0 THEN Inf
    ELSE LET first_half == (t[nd].wins * 10000000) \div t[nd].visits
             second_half ==
                 explore_faction
                     * SqrtLogOver[t[Parent(nd)].visits][t[nd].visits]
             ucb_value == first_half + second_half
         IN  IF is_opponent THEN 10000000 - ucb_value ELSE ucb_value

\* ---------------------------------------------------------- traverse_nodes
\* The while condition of traverse_nodes.
traverse_continues(t, nd, b, s) ==
    /\ Len(t[nd].child_nodes) > 0
    /\ Len(t[nd].untried_actions) = 0
    /\ ~is_ended(b, s)

\* Mutant: the comparison is strict (>), the first maximum is kept.
RECURSIVE scan_children_strict(_, _, _, _, _, _)
scan_children_strict(t, nd, is_opponent, i, best_node, best_ucb_value) ==
    IF i > Len(t[nd].child_nodes) THEN best_node
    ELSE LET child_node == Child(nd, t[nd].child_nodes[i])
             current_ucb_value == ucb(t, child_node, is_opponent)
         IN  IF current_ucb_value > best_ucb_value
             THEN scan_children_strict(t, nd, is_opponent, i + 1, child_node,
                                       current_ucb_value)
             ELSE scan_children_strict(t, nd, is_opponent, i + 1, best_node,
                                       best_ucb_value)

\* The for loop over child_nodes.values(): position i, best so far.
RECURSIVE scan_children(_, _, _, _, _, _)
scan_children(t, nd, is_opponent, i, best_node, best_ucb_value) ==
    IF i > Len(t[nd].child_nodes) THEN best_node
    ELSE LET child_node == Child(nd, t[nd].child_nodes[i])
             current_ucb_value == ucb(t, child_node, is_opponent)
         IN  IF current_ucb_value >= best_ucb_value
             THEN scan_children(t, nd, is_opponent, i + 1, child_node,
                                current_ucb_value)
             ELSE scan_children(t, nd, is_opponent, i + 1, best_node,
                                best_ucb_value)

best_child(t, nd, is_opponent) ==
    scan_children(t, nd, is_opponent, 1, NoNode, -Inf)

\* Mutant: the state is not advanced when the node is.
traverse_move_notAssigned(b, s, nd) == s

\* state = board.next_state(state, node.parent_action)
traverse_move(b, s, nd) == next_state(b, s, ParentAction(nd))

\* ------------------------------------------------------------- expand_leaf
\* The tree after the call, the node and the state the call returns, and
\* the node n it created (NoNode when it created none).
\* Mutant: untried_actions.pop() takes the last action, not the first.
expand_leaf_popLast(t, nd, b, s) ==
    IF Len(t[nd].untried_actions) > 0
    THEN LET u == t[nd].untried_actions
             action == u[Len(u)]
             s2 == next_state(b, s, action)
             new == Child(nd, action)
             t2 == [p \in DOMAIN t \cup {new} |->
                     IF p = new THEN MCTSNode(legal_actions(b, s2))
                     ELSE IF p = nd
                     THEN [t[nd] EXCEPT
                             !.untried_actions = SubSeq(u, 1, Len(u) - 1),
                             !.child_nodes = Append(@, action)]
                     ELSE t[p]]
         IN  [tree |-> t2, node |-> nd, state |-> s2, n |-> new]
    ELSE [tree |-> t, node |-> nd, state |-> s, n |-> NoNode]

\* Mutant: the call returns the node n it created, not the node it was
\* given.
expand_leaf_returnsNew(t, nd, b, s) ==
    IF Len(t[nd].untried_actions) > 0
    THEN LET action == Head(t[nd].untried_actions)
             s2 == next_state(b, s, action)
             new == Child(nd, action)
             t2 == [p \in DOMAIN t \cup {new} |->
                     IF p = new THEN MCTSNode(legal_actions(b, s2))
                     ELSE IF p = nd
                     THEN [t[nd] EXCEPT
                             !.untried_actions = Tail(@),
                             !.child_nodes = Append(@, action)]
                     ELSE t[p]]
         IN  [tree |-> t2, node |-> new, state |-> s2, n |-> new]
    ELSE [tree |-> t, node |-> nd, state |-> s, n |-> NoNode]

expand_leaf(t, nd, b, s) ==
    IF Len(t[nd].untried_actions) > 0
    THEN LET action == Head(t[nd].untried_actions)
             s2 == next_state(b, s, action)
             new == Child(nd, action)
             t2 == [p \in DOMAIN t \cup {new} |->
                     IF p = new THEN MCTSNode(legal_actions(b, s2))
                     ELSE IF p = nd
                     THEN [t[nd] EXCEPT
                             !.untried_actions = Tail(@),
                             !.child_nodes = Append(@, action)]
                     ELSE t[p]]
         IN  [tree |-> t2, node |-> nd, state |-> s2, n |-> new]
    ELSE [tree |-> t, node |-> nd, state |-> s, n |-> NoNode]

\* ------------------------------------------------------------------ is_win
is_win(b, s, identity_of_bot) == points_values(b, s)[identity_of_bot] = 1

\* The assertion of is_win holds.
is_win_defined(b, s) == points_values(b, s) # NoPoints

\* ---------------------------------------------------------------- testaction
\* Mutant: the cap is tested one level too late (depth > 20).
testaction_stops_late(b, test_state, depth) ==
    is_ended(b, test_state) \/ depth > DepthCap + 1

\* if board.is_ended(test_state) or depth > 19
testaction_stops(b, test_state, depth) ==
    is_ended(b, test_state) \/ depth > DepthCap

\* The values testaction(board, state, action, depth, bot_identity) can
\* return, over all the random choices it makes.
RECURSIVE testaction(_, _, _, _, _)
testaction(b, s, action, depth, bot) ==
    LET test_state == next_state(b, s, action)
    IN  IF testaction_stops(b, test_state, depth)
        THEN IF is_ended(b, test_state) /\ is_win(b, test_state, bot)
             THEN {depth * (-1)}
             ELSE {depth}
        ELSE UNION {testaction(b, test_state, selected_action, depth + 1, bot) :
                      selected_action \in Range(legal_actions(b, test_state))}

\* ------------------------------------------------------------------ rollout
\* Mutant: the loop over the actions keeps the last ending action.
ending_actions_lastFirst(b, s) ==
    LET e == SelectSeq(legal_actions(b, s),
                       LAMBDA a : is_ended(b, next_state(b, s, a)))
    IN  [i \in 1..Len(e) |-> e[Len(e) + 1 - i]]

\* Mutant: the test of is_ended(next_state) is missing, the first action
\* is taken as ending.
ending_actions_unchecked(b, s) == legal_actions(b, s)

\* Mutant: the loop over the actions is missing, no action is ending.
ending_actions_none(b, s) == <<>>

\* The legal actions of s whose next state is ended, in list order.
ending_actions(b, s) ==
    SelectSeq(legal_actions(b, s), LAMBDA a : is_ended(b, next_state(b, s, a)))

\* The actions min(actions, key = testaction(...)) can select: the first
\* action whose key is the minimum, for some outcome of the keys.
min_testaction(b, s, bot) ==
    LET actions == legal_actions(b, s)
        key(i) == testaction(b, s, actions[i], 0, bot)
    IN  {actions[i] : i \in
           {i \in 1..Len(actions) :
              \E k \in key(i) :
                 /\ \A j \in 1..(i - 1) : \E kj \in key(j) : kj > k
                 /\ \A j \in (i + 1)..Len(actions) : \E kj \in key(j) : kj >= k}}

\* Mutant: the next state is computed but not assigned to state.
rollout_move_notAssigned(b, s, a) == s

\* state = board.next_state(state, <chosen action>) inside the loop.
rollout_move(b, s, a) == next_state(b, s, a)

\* ------------------------------------------------------------- backpropagate
\* Mutant: the parent check comes before the updates, as in a walk that
\* stops at the root without counting it.
RECURSIVE backpropagate_rootSkipped(_, _, _)
backpropagate_rootSkipped(t, nd, won) ==
    IF nd = Root THEN t
    ELSE backpropagate_rootSkipped(
             [t EXCEPT ![nd].wins = IF won THEN @ + 1 ELSE @,
                       ![nd].visits = @ + 1],
             Parent(nd), won)

\* Mutant: visits is counted in the else branch of "if won".
RECURSIVE backpropagate_elseVisits(_, _, _)
backpropagate_elseVisits(t, nd, won) ==
    LET t1 == [t EXCEPT ![nd].wins = IF won THEN @ + 1 ELSE @,
                        ![nd].visits = IF won THEN @ ELSE @ + 1]
    IN  IF nd = Root THEN t1 ELSE backpropagate_elseVisits(t1, Parent(nd), won)

\* Mutant: the recursive call on node.parent is missing, only the node
\* given is updated.
backpropagate_leafOnly(t, nd, won) ==
    [t EXCEPT ![nd].wins = IF won THEN @ + 1 ELSE @,
              ![nd].visits = @ + 1]

RECURSIVE backpropagate(_, _, _)
backpropagate(t, nd, won) ==
    LET t1 == [t EXCEPT ![nd].wins = IF won THEN @ + 1 ELSE @,
                        ![nd].visits = @ + 1]
    IN  IF nd = Root THEN t1 ELSE backpropagate(t1, Parent(nd), won)

\* ----------------------------------------------------------- get_best_action
\* Mutant: the comparison is >=, the last of the best win rates is kept.
RECURSIVE scan_win_rates_lastSeen(_, _, _, _, _, _)
scan_win_rates_lastSeen(t, root_node, i, best, num, den) ==
    IF i > Len(t[root_node].child_nodes) THEN best
    ELSE LET key == t[root_node].child_nodes[i]
             child_node == t[Child(root_node, key)]
         IN  IF child_node.visits > 0
                  /\ child_node.wins * den >= num * child_node.visits
             THEN scan_win_rates_lastSeen(t, root_node, i + 1, key,
                                          child_node.wins, child_node.visits)
             ELSE scan_win_rates_lastSeen(t, root_node, i + 1, best, num, den)

\* The for loop over child_nodes.items(): position i, best so far; the
\* best win rate is the fraction num / den (-1 to start with).
RECURSIVE scan_win_rates(_, _, _, _, _, _)
scan_win_rates(t, root_node, i, best, num, den) ==
    IF i > Len(t[root_node].child_nodes) THEN best
    ELSE LET key == t[root_node].child_nodes[i]
             child_node == t[Child(root_node, key)]
         IN  IF child_node.visits > 0
                  /\ child_node.wins * den > num * child_node.visits
             THEN scan_win_rates(t, root_node, i + 1, key,
                                 child_node.wins, child_node.visits)
             ELSE scan_win_rates(t, root_node, i + 1, best, num, den)

\* Mutant: the comparison is reversed, the lowest win rate is kept.
RECURSIVE scan_lowest_rate(_, _, _, _, _, _)
scan_lowest_rate(t, root_node, i, best, num, den) ==
    IF i > Len(t[root_node].child_nodes) THEN best
    ELSE LET key == t[root_node].child_nodes[i]
             child_node == t[Child(root_node, key)]
         IN  IF child_node.visits > 0
                  /\ child_node.wins * den < num * child_node.visits
             THEN scan_lowest_rate(t, root_node, i + 1, key,
                                   child_node.wins, child_node.visits)
             ELSE scan_lowest_rate(t, root_node, i + 1, best, num, den)

get_best_action_lowest(t, root_node) ==
    scan_lowest_rate(t, root_node, 1, None, 2, 1)

get_best_action(t, root_node) == scan_win_rates(t, root_node, 1, None, -1, 1)

\* The frame of a call of testaction made on its own: its arguments
\* state, action and depth, and the value it returns. NoProbe: no call.
NoProbe == [state |-> [rem |-> 0, turn |-> 1], action |-> None, depth |-> 0,
            value |-> 0]

\* ------------------------------------------------------------------- think
\* think(board, current_state) with the budget num_nodes, after lines
\* 203-204: the identity of the bot is known and the root node exists.
Init ==
    /\ board \in Boards
    /\ current_state \in States
    /\ num_nodes \in 0..MaxBudget
    /\ bot_identity = current_player(board, current_state)
    /\ tree = [p \in {Root} |-> MCTSNode(legal_actions(board, current_state))]
    /\ pc = "loop"
    /\ iter = 0
    /\ node = Root
    /\ state = current_state
    /\ leaf_node = Root
    /\ expand_node = Root
    /\ n = NoNode
    /\ w = FALSE
    /\ best_action = None
    /\ probe = NoProbe

\* for _ in range(num_nodes): one more iteration.
LoopIter ==
    /\ pc = "loop"
    /\ iter < num_nodes
    /\ iter' = iter + 1
    /\ state' = current_state
    /\ node' = Root
    /\ pc' = "traverse"
    /\ UNCHANGED <<probe, board, current_state, num_nodes, bot_identity, tree,
                   leaf_node, expand_node, n, w, best_action>>

\* One pass of the while loop of traverse_nodes.
TraverseStep ==
    /\ pc = "traverse"
    /\ traverse_continues(tree, node, board, state)
    /\ LET is_opponent == current_player(board, state) # bot_identity
           best_node == best_child(tree, node, is_opponent)
       IN  /\ node' = best_node
           /\ state' = traverse_move(board, state, best_node)
    /\ UNCHANGED <<probe, board, current_state, num_nodes, bot_identity, tree, pc,
                   iter, leaf_node, expand_node, n, w, best_action>>

\* traverse_nodes returns node, state.
TraverseReturn ==
    /\ pc = "traverse"
    /\ ~traverse_continues(tree, node, board, state)
    /\ leaf_node' = node
    /\ pc' = "expand"
    /\ UNCHANGED <<probe, board, current_state, num_nodes, bot_identity, tree, iter,
                   node, state, expand_node, n, w, best_action>>

\* expand_node, state = expand_leaf(leaf_node, board, state)
ExpandLeaf ==
    /\ pc = "expand"
    /\ LET r == expand_leaf(tree, leaf_node, board, state)
       IN  /\ tree' = r.tree
           /\ expand_node' = r.node
           /\ state' = r.state
           /\ n' = r.n
    /\ pc' = "rollout"
    /\ UNCHANGED <<probe, board, current_state, num_nodes, bot_identity, iter, node,
                   leaf_node, w, best_action>>

\* rollout: the state is ended, or it has no legal action: return state.
RolloutReturn ==
    /\ pc = "rollout"
    /\ is_ended(board, state) \/ Len(legal_actions(board, state)) = 0
    /\ pc' = "is_win"
    /\ UNCHANGED <<probe, board, current_state, num_nodes, bot_identity, tree, iter,
                   node, state, leaf_node, expand_node, n, w, best_action>>

\* rollout: some legal action ends the game: return its next state.
RolloutEnding ==
    /\ pc = "rollout"
    /\ ~is_ended(board, state)
    /\ Len(ending_actions(board, state)) > 0
    /\ state' = next_state(board, state, Head(ending_actions(board, state)))
    /\ pc' = "is_win"
    /\ UNCHANGED <<probe, board, current_state, num_nodes, bot_identity, tree, iter,
                   node, leaf_node, expand_node, n, w, best_action>>

\* The rest of one cycle of rollout once selected_action is chosen: play
\* it, then play randomAction = choice(board.legal_actions(state)), which
\* raises IndexError on an empty list.
RolloutCycle(selected_action) ==
    LET s1 == rollout_move(board, state, selected_action)
    IN  IF Len(legal_actions(board, s1)) = 0
        THEN /\ state' = s1
             /\ pc' = "IndexError"
        ELSE /\ \E randomAction \in Range(legal_actions(board, s1)) :
                    state' = rollout_move(board, s1, randomAction)
             /\ pc' = pc

\* rollout, random.random() < exploration_factor.
RolloutRandom ==
    /\ pc = "rollout"
    /\ ~is_ended(board, state)
    /\ Len(legal_actions(board, state)) > 0
    /\ Len(ending_actions(board, state)) = 0
    /\ \E selected_action \in Range(legal_actions(board, state)) :
           RolloutCycle(selected_action)
    /\ UNCHANGED <<probe, board, current_state, num_nodes, bot_identity, tree, iter,
                   node, leaf_node, expand_node, n, w, best_action>>

\* rollout, random.random() >= exploration_factor.
RolloutTestaction ==
    /\ pc = "rollout"
    /\ ~is_ended(board, state)
    /\ Len(legal_actions(board, state)) > 0
    /\ Len(ending_actions(board, state)) = 0
    /\ \E selected_action \in min_testaction(board, state, bot_identity) :
           RolloutCycle(selected_action)
    /\ UNCHANGED <<probe, board, current_state, num_nodes, bot_identity, tree, iter,
                   node, leaf_node, expand_node, n, w, best_action>>

\* w = is_win(board, state, bot_identity); the assertion fails when the
\* state has no points.
IsWin ==
    /\ pc = "is_win"
    /\ IF is_win_defined(board, state)
       THEN /\ w' = is_win(board, state, bot_identity)
            /\ pc' = "backprop"
       ELSE /\ w' = w
            /\ pc' = "AssertionError"
    /\ UNCHANGED <<probe, board, current_state, num_nodes, bot_identity, tree, iter,
                   node, state, leaf_node, expand_node, n, best_action>>

\* backpropagate(expand_node, w)
Backpropagate ==
    /\ pc = "backprop"
    /\ tree' = backpropagate(tree, expand_node, w)
    /\ pc' = "loop"
    /\ UNCHANGED <<probe, board, current_state, num_nodes, bot_identity, iter, node,
                   state, leaf_node, expand_node, n, w, best_action>>

\* The budget is spent: best_action = get_best_action(root_node); return.
Return ==
    /\ pc = "loop"
    /\ iter >= num_nodes
    /\ best_action' = get_best_action(tree, Root)
    /\ pc' = "done"
    /\ UNCHANGED <<probe, board, current_state, num_nodes, bot_identity, tree, iter,
                   node, state, leaf_node, expand_node, n, w>>

Next ==
    \/ LoopIter
    \/ TraverseStep
    \/ TraverseReturn
    \/ ExpandLeaf
    \/ RolloutReturn
    \/ RolloutEnding
    \/ RolloutTestaction
    \/ RolloutRandom
    \/ IsWin
    \/ Backpropagate
    \/ Return

Spec == Init /\ [][Next]_vars

\* rollout(board, state, bot_identity) called on its own, on any state of
\* any engine and for either identity; current_state keeps the state it
\* was called on.
RolloutInit ==
    /\ board \in Boards
    /\ current_state \in States
    /\ bot_identity \in 1..2
    /\ state = current_state
    /\ pc = "rollout"
    /\ num_nodes = 0
    /\ tree = [p \in {Root} |-> MCTSNode(legal_actions(board, current_state))]
    /\ iter = 0
    /\ node = Root
    /\ leaf_node = Root
    /\ expand_node = Root
    /\ n = NoNode
    /\ w = FALSE
    /\ best_action = None
    /\ probe = NoProbe

RolloutNext ==
    \/ RolloutReturn
    \/ RolloutEnding
    \/ RolloutTestaction
    \/ RolloutRandom

\* The interpreter runs the call to its return: while a step of the loop
\* is possible, one is taken.
RolloutSpec == RolloutInit /\ [][RolloutNext]_vars /\ WF_vars(RolloutNext)

\* testaction(board, state, action, 0, bot_identity) called on its own, as
\* rollout calls it: on a state that is not ended and one of its legal
\* actions, at depth 0.
TestactionInit ==
    /\ board \in Boards
    /\ bot_identity \in 1..2
    /\ \E s \in [rem : 1..MaxProbeRem, turn : 1..2] :
         \E a \in Range(legal_actions(board, s)) :
            probe = [state |-> s, action |-> a, depth |-> 0, value |-> 0]
    /\ pc = "testaction"
    /\ current_state = NoProbe.state
    /\ state = NoProbe.state
    /\ num_nodes = 0
    /\ tree = [p \in {Root} |-> MCTSNode(<<>>)]
    /\ iter = 0
    /\ node = Root
    /\ leaf_node = Root
    /\ expand_node = Root
    /\ n = NoNode
    /\ w = FALSE
    /\ best_action = None

\* testaction stops: it returns -depth when test_state is ended and won
\* (is_win is called, and asserts, only when test_state is ended), else
\* depth.
TestactionReturn ==
    /\ pc = "testaction"
    /\ LET test_state == next_state(board, probe.state, probe.action)
       IN  /\ testaction_stops(board, test_state, probe.depth)
           /\ IF is_ended(board, test_state)
                   /\ ~is_win_defined(board, test_state)
              THEN /\ pc' = "AssertionError"
                   /\ probe' = probe
              ELSE /\ pc' = "returned"
                   /\ probe' =
                        [probe EXCEPT !.value =
                           IF is_ended(board, test_state)
                                /\ is_win(board, test_state, bot_identity)
                           THEN probe.depth * (-1)
                           ELSE probe.depth]
    /\ UNCHANGED <<board, current_state, num_nodes, bot_identity, tree, iter,
                   node, state, leaf_node, expand_node, n, w, best_action>>

\* testaction goes on: selected_action = choice(legal_actions(test_state)),
\* which raises IndexError on an empty list, and the recursive call.
TestactionRecurse ==
    /\ pc = "testaction"
    /\ LET test_state == next_state(board, probe.state, probe.action)
       IN  /\ ~testaction_stops(board, test_state, probe.depth)
           /\ IF Len(legal_actions(board, test_state)) = 0
              THEN /\ pc' = "IndexError"
                   /\ probe' = probe
              ELSE /\ pc' = pc
                   /\ \E selected_action \in
                            Range(legal_actions(board, test_state)) :
                         probe' = [state |-> test_state,
                                   action |-> selected_action,
                                   depth |-> probe.depth + 1,
                                   value |-> 0]
    /\ UNCHANGED <<board, current_state, num_nodes, bot_identity, tree, iter,
                   node, state, leaf_node, expand_node, n, w, best_action>>

TestactionNext ==
    \/ TestactionReturn
    \/ TestactionRecurse

\* The interpreter runs the call to its return.
TestactionSpec ==
    TestactionInit /\ [][TestactionNext]_vars /\ WF_vars(TestactionNext)

\* Every call this module receives: think, or testaction as rollout
\* calls it.
CallInit == Init \/ TestactionInit

CallNext == Next \/ TestactionNext

CallSpec == CallInit /\ [][CallNext]_vars

TypeOK ==
    /\ pc \in {"loop", "traverse", "expand", "rollout", "is_win", "backprop",
               "done", "AssertionError", "IndexError", "testaction",
               "returned"}
    /\ iter \in 0..num_nodes
    /\ state \in States

\* ------------------------------------------------------------- properties
\* The state associated with a node: the actions of its name replayed from
\* current_state, as traverse_nodes recomputes it.
RECURSIVE StateOf(_)
StateOf(nd) ==
    IF nd = Root THEN current_state
    ELSE next_state(board, StateOf(Parent(nd)), ParentAction(nd))

\* p lies on the parent chain from leaf up to the root.
OnChain(p, leaf) == Len(p) <= Len(leaf) /\ SubSeq(leaf, 1, Len(p)) = p

\* Some child of the root has visits > 0.
RootChildVisited ==
    \E i \in 1..Len(tree[Root].child_nodes) :
        tree[Child(Root, tree[Root].child_nodes[i])].visits > 0

\* C1: with a budget of at least one iteration and a current_state that is
\* not ended, the value think returns is a legal action of current_state.
C1_DecisionValidity ==
    (pc = "done" /\ num_nodes >= 1 /\ ~is_ended(board, current_state))
        => best_action \in Range(legal_actions(board, current_state))

\* C2: when get_best_action is called after a budget of at least one
\* iteration on a current_state with a legal action, some child of the
\* root has visits > 0.
C2_RootChildVisited ==
    (pc = "loop" /\ iter >= num_nodes /\ num_nodes >= 1
        /\ Len(legal_actions(board, current_state)) > 0)
        => RootChildVisited

\* The root of the scenario of C3: one counter left, so both actions end
\* the game, one as a win and one as a loss of the player to move.
WinLossRoot ==
    /\ current_state.rem = 1
    /\ {board.exact, board.over} = {"win", "loss"}

WinningAction == IF board.exact = "win" THEN 1 ELSE 2

\* C3: at a root with two legal actions, an immediate win and an immediate
\* loss, think returns the winning action for every budget >= 10, whatever
\* the order of the two actions.
C3_ReturnsWinningAction ==
    (pc = "done" /\ WinLossRoot /\ num_nodes >= 10)
        => best_action = WinningAction

C3_Witness ==
    /\ pc = "done"
    /\ WinLossRoot
    /\ num_nodes >= 10
    /\ best_action = WinningAction
    /\ legal_actions(board, current_state)[1] # WinningAction
    /\ tree[Child(Root, 3 - WinningAction)].visits > 0

\* C4: when the node chosen by traverse_nodes has an untried action,
\* expand_leaf returns the child it created under the popped action and
\* that child's state, and the backpropagation of the iteration leaves the
\* new child with visits = 1.
C4_ExpandReturnsNewChild ==
    [][/\ (pc = "expand" /\ Len(tree[leaf_node].untried_actions) > 0)
            => LET action == Head(tree[leaf_node].untried_actions)
               IN  /\ n' = Child(leaf_node, action)
                   /\ n' \in DOMAIN tree'
                   /\ expand_node' = n'
                   /\ state' = next_state(board, state, action)
       /\ (pc = "backprop" /\ n # NoNode) => tree'[n].visits = 1]_vars

\* C5: backpropagate(leaf, won) adds 1 to visits and (1 if won else 0) to
\* wins on every node of the parent chain of leaf, the root included, and
\* changes nothing else in the tree.
C5_VisitConservation ==
    [][pc = "backprop"
        => /\ DOMAIN tree' = DOMAIN tree
           /\ \A p \in DOMAIN tree :
                /\ tree'[p].untried_actions = tree[p].untried_actions
                /\ tree'[p].child_nodes = tree[p].child_nodes
                /\ IF OnChain(p, expand_node)
                   THEN /\ tree'[p].visits = tree[p].visits + 1
                        /\ tree'[p].wins = tree[p].wins + (IF w THEN 1 ELSE 0)
                   ELSE /\ tree'[p].visits = tree[p].visits
                        /\ tree'[p].wins = tree[p].wins]_vars

\* A won backpropagation from a node below the root has just ended, in a
\* tree that has nodes off the chain.
C5_Witness ==
    /\ pc = "loop"
    /\ iter >= 1
    /\ w
    /\ Len(expand_node) >= 1
    /\ tree[expand_node].wins >= 1
    /\ \E p \in DOMAIN tree : ~OnChain(p, expand_node)

\* C6: think, run with a budget of at least one iteration, does not return
\* a value when no child of the root has visits > 0: it reports a failure
\* instead.
C6_NoDecidableActionReported ==
    (num_nodes >= 1 /\ ~RootChildVisited) => pc # "done"

\* C7: every node of the tree has 0 <= wins <= visits.
C7_WinsAtMostVisits ==
    \A p \in DOMAIN tree : 0 <= tree[p].wins /\ tree[p].wins <= tree[p].visits

C7_Witness ==
    \E p \in DOMAIN tree : 1 <= tree[p].wins /\ tree[p].wins < tree[p].visits

\* C8: at every node the keys of child_nodes, in insertion order, followed
\* by untried_actions are the legal actions of the node's state in list
\* order; a call of expand_leaf moves the first untried action, and only
\* it, to a new child, and creates nothing when no action is untried.
C8_ExpansionExhaustion ==
    /\ [](\A p \in DOMAIN tree :
            /\ tree[p].child_nodes \o tree[p].untried_actions
                   = legal_actions(board, StateOf(p))
            /\ \A a \in Range(tree[p].child_nodes) : Child(p, a) \in DOMAIN tree
            /\ \A a \in Range(tree[p].untried_actions) :
                   Child(p, a) \notin DOMAIN tree)
    /\ [][pc = "expand"
            => LET u == tree[leaf_node].untried_actions
               IN  IF Len(u) > 0
                   THEN /\ DOMAIN tree' = DOMAIN tree \cup {Child(leaf_node, u[1])}
                        /\ tree'[leaf_node].untried_actions = Tail(u)
                        /\ tree'[leaf_node].child_nodes
                               = Append(tree[leaf_node].child_nodes, u[1])
                   ELSE tree' = tree]_vars

\* A node whose two actions are both expanded exists, and expand_leaf has
\* just been called on a node without untried actions.
C8_Witness ==
    /\ pc = "rollout"
    /\ n = NoNode
    /\ \E p \in DOMAIN tree :
          /\ Len(tree[p].untried_actions) = 0
          /\ Len(tree[p].child_nodes) = 2
          /\ Len(p) >= 1

\* C9: every rollout returns a state: the loop of rollout is left after
\* finitely many cycles.
C9_RolloutTerminates == (pc = "rollout") ~> (pc = "is_win")

\* rollout has returned an ended state after at least two full cycles: it
\* was called on a state with more than four counters.
C9_Witness ==
    /\ pc = "is_win"
    /\ is_ended(board, state)
    /\ current_state.rem > 4

\* C10: on a current_state that is ended think neither runs an iteration
\* nor returns a value.
C10_EndedRootRejected ==
    is_ended(board, current_state)
        => pc \notin {"traverse", "expand", "rollout", "is_win", "backprop",
                      "done"}

\* C11: testaction started at depth 0 is never called with a depth above
\* 20, every value it returns is between -20 and 20, and every call
\* returns.
C11_TestactionBounded ==
    /\ [](probe.depth <= 20
            /\ (pc = "returned" => (-20 <= probe.value /\ probe.value <= 20)))
    /\ ((pc = "testaction") ~> (pc = "returned"))

\* A call has returned at depth 20 because of the cap: the game was not
\* ended there.
C11_Witness ==
    /\ pc = "returned"
    /\ probe.depth = 20
    /\ probe.value = 20
    /\ ~is_ended(board, next_state(board, probe.state, probe.action))

\* C12: traverse_nodes returns a node that has an untried action, or has
\* no child, or whose state is ended, together with the state reached by
\* applying from the root state the parent_action of every node on the
\* path to it.
C12_TraverseResult ==
    pc = "expand"
        => /\ \/ Len(tree[leaf_node].untried_actions) > 0
              \/ Len(tree[leaf_node].child_nodes) = 0
              \/ is_ended(board, state)
           /\ state = StateOf(leaf_node)

\* traverse_nodes has returned a node two levels below the root that can
\* be expanded.
C12_Witness ==
    /\ pc = "expand"
    /\ Len(leaf_node) >= 2
    /\ Len(tree[leaf_node].untried_actions) > 0
    /\ state = StateOf(leaf_node)

\* traverse_nodes is about to select a child of node.
SelectionStep == pc = "traverse" /\ traverse_continues(tree, node, board, state)

\* The ucb value, as the selection at parent nd in state s sees it, of the
\* i-th child of nd.
ChildUcb(nd, s, i) ==
    ucb(tree, Child(nd, tree[nd].child_nodes[i]),
        current_player(board, s) # bot_identity)

\* C13: each step of traverse_nodes selects a child with the maximum ucb
\* value, and among several children with that value the first one in
\* the order of child_nodes.
C13_FirstSeenMaximum ==
    [][SelectionStep
        => \E i \in 1..Len(tree[node].child_nodes) :
              /\ node' = Child(node, tree[node].child_nodes[i])
              /\ \A j \in 1..Len(tree[node].child_nodes) :
                    ChildUcb(node, state, j) <= ChildUcb(node, state, i)
              /\ \A j \in 1..(i - 1) :
                    ChildUcb(node, state, j) < ChildUcb(node, state, i)]_vars

\* C13 as amended: each step of traverse_nodes selects a child with the
\* maximum ucb value, and among several children with that value the
\* last one in the order of child_nodes.
C13_LastSeenMaximum ==
    [][SelectionStep
        => \E i \in 1..Len(tree[node].child_nodes) :
              /\ node' = Child(node, tree[node].child_nodes[i])
              /\ \A j \in 1..Len(tree[node].child_nodes) :
                    ChildUcb(node, state, j) <= ChildUcb(node, state, i)
              /\ \A j \in (i + 1)..Len(tree[node].child_nodes) :
                    ChildUcb(node, state, j) < ChildUcb(node, state, i)]_vars

\* A step has just selected node although an earlier child of the same
\* parent had the same finite ucb value.
C13_Witness ==
    /\ pc = "traverse"
    /\ Len(node) >= 1
    /\ LET parent == Parent(node)
           s == StateOf(parent)
           keys == tree[parent].child_nodes
       IN  \E i, j \in 1..Len(keys) :
              /\ j < i
              /\ node = Child(parent, keys[i])
              /\ ChildUcb(parent, s, j) = ChildUcb(parent, s, i)
              /\ ChildUcb(parent, s, i) < Inf

\* C14: ucb is infinite on every node without visits, for the bot and for
\* the opponent, and a step of traverse_nodes at a node that has a child
\* without visits selects a child without visits.
C14_UnvisitedFirst ==
    /\ [](\A p \in DOMAIN tree \ {Root} :
            tree[p].visits = 0
                => ucb(tree, p, TRUE) = Inf /\ ucb(tree, p, FALSE) = Inf)
    /\ [][(SelectionStep
             /\ \E a \in Range(tree[node].child_nodes) :
                   tree[Child(node, a)].visits = 0)
            => tree[node'].visits = 0]_vars

\* On the opponent's turn a step has just selected a child without visits
\* that is the first of the children, the other one having visits.
C14_Witness ==
    /\ pc = "traverse"
    /\ Len(node) >= 1
    /\ tree[node].visits = 0
    /\ current_player(board, StateOf(Parent(node))) # bot_identity
    /\ tree[Parent(node)].child_nodes[1] = ParentAction(node)
    /\ \E a \in Range(tree[Parent(node)].child_nodes) :
          tree[Child(Parent(node), a)].visits > 0

\* The i-th child of the root.
RootChild(i) == tree[Child(Root, tree[Root].child_nodes[i])]

\* The win rate of child c is below that of child d (both visited).
RateBelow(c, d) == c.wins * d.visits < d.wins * c.visits

\* C15: when some child of the root has visits > 0, think returns the key
\* of a child with visits > 0 whose wins/visits is the highest among the
\* children with visits > 0, and the first such child in the order of
\* child_nodes.
C15_BestWinRateFirst ==
    (pc = "done" /\ RootChildVisited)
        => \E i \in 1..Len(tree[Root].child_nodes) :
              /\ best_action = tree[Root].child_nodes[i]
              /\ RootChild(i).visits > 0
              /\ \A j \in 1..Len(tree[Root].child_nodes) :
                    RootChild(j).visits > 0
                        => ~RateBelow(RootChild(i), RootChild(j))
              /\ \A j \in 1..(i - 1) :
                    RootChild(j).visits > 0
                        => RateBelow(RootChild(j), RootChild(i))

\* think has returned the first of two visited children with the same
\* positive win rate.
C15_Witness ==
    /\ pc = "done"
    /\ Len(tree[Root].child_nodes) = 2
    /\ best_action = tree[Root].child_nodes[1]
    /\ RootChild(1).wins > 0
    /\ RootChild(2).visits > 0
    /\ RootChild(1).wins * RootChild(2).visits
           = RootChild(2).wins * RootChild(1).visits

\* C16: when the state of rollout is not ended and some legal action leads
\* to an ended state, rollout returns the next state of the first such
\* action in the order of legal_actions; and every state rollout returns
\* is ended.
C16_RolloutShortCircuit ==
    /\ [][(pc = "rollout" /\ ~is_ended(board, state))
            => LET actions == legal_actions(board, state)
                   ends(i) == is_ended(board, next_state(board, state, actions[i]))
               IN  \A i \in 1..Len(actions) :
                      (ends(i) /\ \A j \in 1..(i - 1) : ~ends(j))
                          => /\ pc' = "is_win"
                             /\ state' = next_state(board, state, actions[i])]_vars
    /\ [](pc = "is_win" => is_ended(board, state))

\* rollout, called with one counter left on an engine that lists action 2
\* first, has returned the state after action 2.
C16_Witness ==
    /\ pc = "is_win"
    /\ current_state.rem = 1
    /\ board.order = <<2, 1>>
    /\ state = next_state(board, current_state, 2)


\* C17: is_win is never called on a state that is not ended, so its
\* assertion never fails: the state think passes to is_win (the result of
\* rollout) is ended and has points, and testaction returns a negative
\* value, which takes a call of is_win, only on an ended test_state.
C17_IsWinOnEndedOnly ==
    /\ pc # "AssertionError"
    /\ pc = "is_win"
         => is_ended(board, state) /\ is_win_defined(board, state)
    /\ (pc = "returned" /\ probe.value < 0)
         => LET test_state == next_state(board, probe.state, probe.action)
            IN  is_ended(board, test_state)
                  /\ is_win(board, test_state, bot_identity)

\* think has called is_win on the result of a rollout that played at
\* least one cycle from the state of the new node.
C17_Witness ==
    /\ pc = "backprop"
    /\ n # NoNode
    /\ is_ended(board, state)
    /\ state.rem < StateOf(n).rem


\* The sum of the visits of the first i children of node p.
RECURSIVE ChildVisits(_, _)
ChildVisits(p, i) ==
    IF i = 0 THEN 0
    ELSE tree[Child(p, tree[p].child_nodes[i])].visits + ChildVisits(p, i - 1)

\* C18: at the end of every iteration of think the visits of the root is
\* the number of iterations completed, and every node whose state is not
\* ended has visits = the number of its children + the sum of the visits
\* of its children.
C18_VisitAccounting ==
    pc = "loop"
      => /\ tree[Root].visits = iter
         /\ \A p \in DOMAIN tree :
               ~is_ended(board, StateOf(p))
                 => tree[p].visits = Len(tree[p].child_nodes)
                                      + ChildVisits(p, Len(tree[p].child_nodes))

\* Iterations have ended in a tree where a node below the root has
\* children of its own and a child of the root has been visited twice.
C18_Witness ==
    /\ pc = "loop"
    /\ iter >= 4
    /\ \E p \in DOMAIN tree :
          /\ Len(p) = 1
          /\ tree[p].visits >= 2
          /\ Len(tree[p].child_nodes) >= 1
          /\ ~is_ended(board, StateOf(p))


\* C19: every node below the root has visits <= the visits of its parent;
\* and whenever traverse_nodes evaluates ucb on a child with visits > 0,
\* the visits of the parent is >= 1, so that log(parent.visits) is defined
\* and not negative.
C19_VisitsAtMostParent ==
    /\ \A p \in DOMAIN tree :
          p # Root => tree[p].visits <= tree[Parent(p)].visits
    /\ SelectionStep
         => \A i \in 1..Len(tree[node].child_nodes) :
               tree[Child(node, tree[node].child_nodes[i])].visits > 0
                 => tree[node].visits >= 1

\* traverse_nodes is selecting below the root among children of which one
\* has been visited.
C19_Witness ==
    /\ SelectionStep
    /\ node # Root
    /\ \E i \in 1..Len(tree[node].child_nodes) :
          tree[Child(node, tree[node].child_nodes[i])].visits > 0


\* C20: no random draw is made from an empty list: in rollout the state
\* after selected_action, from which the forced random move is drawn, is
\* not ended and has a legal action, and so has the test_state from which
\* testaction draws when it does not stop; IndexError is never raised.
C20_RandomDrawNonEmpty ==
    /\ pc # "IndexError"
    /\ (pc = "rollout" /\ ~is_ended(board, state)
                       /\ Len(ending_actions(board, state)) = 0)
         => \A selected_action \in Range(legal_actions(board, state)) :
               LET s1 == rollout_move(board, state, selected_action)
               IN  ~is_ended(board, s1) /\ Len(legal_actions(board, s1)) > 0
    /\ pc = "testaction"
         => LET test_state == next_state(board, probe.state, probe.action)
            IN  ~testaction_stops(board, test_state, probe.depth)
                  => /\ ~is_ended(board, test_state)
                     /\ Len(legal_actions(board, test_state)) > 0

\* rollout has played a cycle, selected_action and the forced random
\* move, from the state of the new node and goes on.
C20_Witness ==
    /\ pc = "rollout"
    /\ n # NoNode
    /\ ~is_ended(board, state)
    /\ state.rem < StateOf(n).rem - 1

====
